---- MODULE Spec2Model ----
(***************************************************************************)
(* Model of sutro's OAuth flow: main (main.go), the authenticate command   *)
(* with its redirect service (cmd/authenticate/authenticate.go) and the    *)
(* dot-file configuration store (package config).                          *)
(*                                                                         *)
(* One process run is modelled.  The foreground goroutine goes through     *)
(* main -> command -> post-run hook -> exit; every incoming redirect       *)
(* request is served by its own handler goroutine, and the handlers talk   *)
(* to the foreground through the unbuffered channel oAuthCodeChannel.      *)
(***************************************************************************)
EXTENDS Integers, Sequences, FiniteSets

\* ---------------------------------------------------------------- bounds
MaxRequests == 2          \* redirect requests that reach the listener
MaxApiCalls == 2          \* API calls made by a non-authenticate command

\* the argument of promptBooleanOnce in promptBoolean
PromptAttempts == 3

Requests == 1..MaxRequests

\* values of the `code` and `state` query parameters ("" when missing)
Codes == {"", "c1", "c2"}
ServiceState == "uuid"
States == {ServiceState, "forged"}

\* what fmt.Scan yields for one prompt response
Responses == {"yes", "YES", "no", "No", "junk", "EOF"}

\* http status codes
StatusOK == 200
StatusBadRequest == 400

\* response bodies written by the handler
MismatchBody == "The returned state does not match"
ConfirmBody == "Code successfully received"

NoValue == "<none>"
Nil == "nil"
NoToken == [access |-> 0, refresh |-> 0, valid |-> FALSE]

\* the fields of an oauth2.Config that the store keeps
NoOAuth == [ClientID |-> "", ClientSecret |-> "", AuthURL |-> "", TokenURL |-> ""]

\* the JSON object of the dot file (json tags of configuration, endpoints and
\* oauth2.Token); the expiry is written as a time, here "future" or "past"
NoJSON == [client_id |-> "", client_secret |-> "",
           endpoints |-> [auth_url |-> "", token_url |-> ""],
           token |-> [access_token |-> 0, refresh_token |-> 0, expiry |-> "past"]]

\* the dot file: absent, empty (truncated, nothing written) or a configuration
NoFile == [kind |-> "absent", json |-> NoJSON]
EmptyFile == [kind |-> "empty", json |-> NoJSON]
ConfigFile(j) == [kind |-> "config", json |-> j]

\* a path that is a directory, a file that cannot be opened, and a path whose
\* Stat fails with an error other than "does not exist"
DirectoryFile == [kind |-> "directory", json |-> NoJSON]
UnreadableFile == [kind |-> "unreadable", json |-> NoJSON]
UnstatableFile == [kind |-> "unstatable", json |-> NoJSON]

\* a nil Configuration
NilConfiguration == [kind |-> "nil", oauth |-> NoOAuth, token |-> NoToken]

\* the client configuration given on the command line or stored in the file
FlagsConfig == [ClientID |-> "abc", ClientSecret |-> "xyz",
                AuthURL |-> "https://example.com/authorize",
                TokenURL |-> "https://example.com/token"]
StoredConfig == [ClientID |-> "id0", ClientSecret |-> "secret0",
                 AuthURL |-> "https://strava.com/oauth/authorize",
                 TokenURL |-> "https://strava.com/oauth/token"]

VARIABLES
    \* main
    pc,            \* position of main: "main", "choose", "run", "postrun", "exited"
    cmd,           \* name of the executed cobra command
    config,        \* main's `config`: NilConfiguration or a configuration
    file,          \* the dot file: NoFile, EmptyFile or a configuration
    clientSource,  \* token held by the API client's token source
    apiCalls,      \* API calls made so far
    issued,        \* tokens issued so far by the authorization server
    refreshCalls,  \* refresh exchanges performed (sequence of callers)
    saves,         \* Save invocations (sequence of records)
    exitCode,
    \* authenticate
    apc,           \* position of authenticate
    remainingAttempts,
    openInBrowser,
    err,           \* authenticate's local `err`
    result,        \* value returned by authenticate
    started,       \* NewOAuthRedirectService succeeded
    shutdownCalled,
    code,          \* authenticate's local `code`
    codeFrom,      \* request whose send was received (0: from the closed channel)
    receives,      \* receives performed on the channel
    exchanges,     \* codes passed to oAuthConfig.Exchange, in order
    token,         \* authenticate's local `token`
    scanned,       \* responses read by the prompt, in order
    flags,         \* the client configuration given in authenticate's flags
    \* channel and handlers
    closed,        \* oAuthCodeChannel is closed
    arrived,       \* number of requests accepted by the listener
    request,       \* request[r] = [state, code]
    hpc,           \* position of handler r
    status,        \* status line of response r (0: none written)
    body,          \* bodies written to response r, in order
    delivered,     \* what the client of request r gets: "pending", "sent", "aborted"
    listener       \* the server's listener: "none", "pending", "bound", "failed", "closed"

mainVars == <<pc, cmd, config, file, clientSource, apiCalls, issued, refreshCalls,
              saves, exitCode>>
authVars == <<apc, remainingAttempts, openInBrowser, err, result, started,
              shutdownCalled, code, codeFrom, receives, exchanges, token, scanned, flags>>
handlerVars == <<closed, arrived, request, hpc, status, body, delivered, listener>>
vars == <<mainVars, authVars, handlerVars>>

\* ------------------------------------------------------------ tokens
\* A token the server issues as its n-th: fresh, with its own refresh token.
IssuedToken(n) == [access |-> n, refresh |-> n, valid |-> TRUE]

\* oauth2.Token.Valid
Valid(t) == t.access # 0 /\ t.valid

\* A token as stored by an earlier run: still valid, or past its expiry.
StoredTokens == {[access |-> 1, refresh |-> 1, valid |-> v] : v \in BOOLEAN}

\* configuration.TokenSource: a new reusing token source that starts from the
\* configuration's Token field (and refreshes with its refresh token).
TokenSource(c) == c.token

\* Token() of a reusing token source whose current token is t, when the server
\* has issued n tokens: a valid token is returned as is; otherwise one refresh
\* exchange is made which, when it succeeds, replaces the source's own token.
\* The Token object the source was built from is never written.
SourceToken(t, n, refreshOk) ==
    IF Valid(t) THEN [t |-> t, err |-> FALSE, refreshes |-> 0]
    ELSE IF refreshOk
         THEN [t |-> [access |-> n + 1, refresh |-> t.refresh, valid |-> TRUE],
               err |-> FALSE, refreshes |-> 1]
         ELSE [t |-> t, err |-> TRUE, refreshes |-> 1]

\* config.NewConfiguration
NewConfiguration(oauth, t) == [kind |-> "config", oauth |-> oauth, token |-> t]

\* ------------------------------------------------------------ the store
\* an encoding that writes the two endpoints under each other's key
MarshalSwapped(c, t) ==
    [client_id |-> c.oauth.ClientID,
     client_secret |-> c.oauth.ClientSecret,
     endpoints |-> [auth_url |-> c.oauth.TokenURL, token_url |-> c.oauth.AuthURL],
     token |-> [access_token |-> t.access, refresh_token |-> t.refresh,
                expiry |-> IF t.valid THEN "future" ELSE "past"]]

\* part_000 81-98: the persistent configuration built from c's
\* OAuthConfiguration() and the token t, encoded by json.MarshalIndent
MarshalIndent(c, t) ==
    [client_id |-> c.oauth.ClientID,
     client_secret |-> c.oauth.ClientSecret,
     endpoints |-> [auth_url |-> c.oauth.AuthURL, token_url |-> c.oauth.TokenURL],
     token |-> [access_token |-> t.access, refresh_token |-> t.refresh,
                expiry |-> IF t.valid THEN "future" ELSE "past"]]

\* part_000 68-73: json.Unmarshal of the file's object into a configuration
Unmarshal(j) ==
    [kind |-> "config",
     oauth |-> [ClientID |-> j.client_id, ClientSecret |-> j.client_secret,
                AuthURL |-> j.endpoints.auth_url, TokenURL |-> j.endpoints.token_url],
     token |-> [access |-> j.token.access_token, refresh |-> j.token.refresh_token,
                valid |-> j.token.expiry = "future"]]

\* fileConfiguration.Get: the configuration and the error it returns.  Only the
\* "does not exist" error of Stat is looked at: after any other Stat error
\* fileInfo is nil and fileInfo.IsDir() panics.  Content that is not complete
\* JSON is rejected by Unmarshal.
Get(f) ==
    CASE f.kind = "absent" -> [c |-> NilConfiguration, err |-> Nil]
      [] f.kind = "unstatable" -> [c |-> NilConfiguration, err |-> "panic"]
      [] f.kind = "directory" -> [c |-> NilConfiguration, err |-> "ConfigError"]
      [] f.kind = "unreadable" -> [c |-> NilConfiguration, err |-> "ConfigError"]
      [] f.kind = "empty" -> [c |-> NilConfiguration, err |-> "ConfigError"]
      [] OTHER -> [c |-> Unmarshal(f.json), err |-> Nil]

\* steps of Save that can fail: the token read, OpenFile, Write
SaveFaults(c) == {"none", "open", "write"} \cup
                 (IF Valid(c.token) THEN {} ELSE {"token"})

\* fileConfiguration.Save of configuration c over file f when the server has
\* issued n tokens.  The token is read through a new token source of c; the
\* file is opened with O_TRUNC before the bytes are written.
Save(f, c, n, fault) ==
    LET read == SourceToken(TokenSource(c), n, fault # "token")
    IN  IF read.err
        THEN [err |-> TRUE, file |-> f, refreshes |-> read.refreshes, token |-> NoToken]
        ELSE IF fault = "open"
        THEN [err |-> TRUE, file |-> f, refreshes |-> read.refreshes, token |-> NoToken]
        ELSE IF fault = "write"
        THEN [err |-> TRUE, file |-> EmptyFile, refreshes |-> read.refreshes, token |-> NoToken]
        ELSE [err |-> FALSE, file |-> ConfigFile(MarshalIndent(c, read.t)),
              refreshes |-> read.refreshes, token |-> read.t]

\* the bookkeeping of one Save invocation made by `who`
Saved(who, c, fault) ==
    LET s == Save(file, c, issued, fault)
    IN  /\ file' = s.file
        /\ issued' = issued + (IF s.refreshes > 0 /\ ~s.err THEN 1 ELSE 0)
        /\ refreshCalls' = IF s.refreshes > 0 THEN Append(refreshCalls, who)
                           ELSE refreshCalls
        /\ saves' = Append(saves, [by |-> who, err |-> s.err, token |-> s.token])

\* ------------------------------------------------------------ initial state
Init ==
    /\ pc = "main"
    /\ cmd = NoValue
    /\ config = NilConfiguration
    /\ file \in {NoFile, EmptyFile, DirectoryFile, UnreadableFile, UnstatableFile} \cup
                {ConfigFile(MarshalIndent(NewConfiguration(StoredConfig, t), t)) :
                    t \in StoredTokens}
    /\ clientSource = NoToken
    /\ apiCalls = 0
    /\ issued = 1
    /\ refreshCalls = <<>>
    /\ saves = <<>>
    /\ exitCode = 0
    /\ apc = "idle"
    /\ remainingAttempts = 0
    /\ openInBrowser = FALSE
    /\ err = Nil
    /\ result = NoValue
    /\ started = FALSE
    /\ shutdownCalled = FALSE
    /\ code = NoValue
    /\ codeFrom = -1
    /\ receives = 0
    /\ exchanges = <<>>
    /\ token = NoToken
    /\ scanned = <<>>
    /\ flags = FlagsConfig
    /\ closed = FALSE
    /\ arrived = 0
    /\ request = [r \in Requests |-> [state |-> "", code |-> ""]]
    /\ hpc = [r \in Requests |-> "none"]
    /\ status = [r \in Requests |-> 0]
    /\ body = [r \in Requests |-> <<>>]
    /\ delivered = [r \in Requests |-> "pending"]
    /\ listener = "none"

\* ------------------------------------------------------------ main
\* main.go 34-60: load the configuration; with one, build the API client on a
\* token source of it.  An error of Get ends the process with -2, a panic in Get
\* kills it (exit status 2).
MainGet ==
    /\ pc = "main"
    /\ IF Get(file).err # Nil
       THEN /\ pc' = "exited"
            /\ exitCode' = IF Get(file).err = "panic" THEN 2 ELSE -2
            /\ UNCHANGED <<config, clientSource>>
       ELSE /\ config' = Get(file).c
            /\ clientSource' = IF Get(file).c.kind = "nil" THEN NoToken
                               ELSE TokenSource(Get(file).c)
            /\ pc' = "choose"
            /\ UNCHANGED exitCode
    /\ UNCHANGED <<cmd, file, apiCalls, issued, refreshCalls, saves>>
    /\ UNCHANGED <<authVars, handlerVars>>

\* the commands ExecuteC can run: the API commands exist only with a
\* configuration (main.go 42-61)
Commands == {"authenticate", "help"} \cup
            (IF config.kind = "nil" THEN {} ELSE {"api"})

\* main.go 74: ExecuteC dispatches to the command named on the command line
Execute ==
    /\ pc = "choose"
    /\ \E c \in Commands :
          /\ cmd' = c
          /\ apc' = IF c = "authenticate" THEN "start" ELSE apc
    /\ pc' = "run"
    /\ UNCHANGED <<config, file, clientSource, apiCalls, issued, refreshCalls,
                   saves, exitCode>>
    /\ UNCHANGED <<remainingAttempts, openInBrowser, err, result, started,
                   shutdownCalled, code, codeFrom, receives, exchanges, token, scanned, flags>>
    /\ UNCHANGED handlerVars

\* An API command makes a request through the client built at main.go 43-51: the
\* transport reads the token from the client's token source.
ApiCall ==
    /\ pc = "run"
    /\ cmd = "api"
    /\ apiCalls < MaxApiCalls
    /\ LET read == SourceToken(clientSource, issued, TRUE)
       IN  /\ clientSource' = read.t
           /\ issued' = issued + read.refreshes
           /\ refreshCalls' = IF read.refreshes > 0
                              THEN Append(refreshCalls, "client")
                              ELSE refreshCalls
    /\ apiCalls' = apiCalls + 1
    /\ UNCHANGED <<pc, cmd, config, file, saves, exitCode>>
    /\ UNCHANGED <<authVars, handlerVars>>

\* the API command or the help command returns
CommandDone ==
    /\ pc = "run"
    /\ cmd \in {"api", "help"}
    /\ pc' = "postrun"
    /\ UNCHANGED <<cmd, config, file, clientSource, apiCalls, issued,
                   refreshCalls, saves, exitCode>>
    /\ UNCHANGED <<authVars, handlerVars>>

\* a hook that saves after every command
HookSavesAlways(name) == TRUE

\* main.go 66-72: the hook saves unless the command is authenticate
HookSaves(name) == name # "authenticate"

\* main.go 66-79: PersistentPostRunE, then the process exits.  Save on a nil
\* configuration dereferences nil and the process dies of the panic.
PersistentPostRunE ==
    /\ pc = "postrun"
    /\ pc' = "exited"
    /\ IF ~HookSaves(cmd)
       THEN /\ exitCode' = 0
            /\ UNCHANGED <<file, issued, refreshCalls, saves>>
       ELSE IF config.kind = "nil"
       THEN /\ exitCode' = 2
            /\ saves' = Append(saves, [by |-> "exit", err |-> TRUE, token |-> NoToken])
            /\ UNCHANGED <<file, issued, refreshCalls>>
       ELSE \E fault \in SaveFaults(config) :
               /\ Saved("exit", config, fault)
               /\ exitCode' = IF Save(file, config, issued, fault).err THEN -3 ELSE 0
    /\ UNCHANGED <<cmd, config, clientSource, apiCalls>>
    /\ UNCHANGED <<authVars, handlerVars>>

\* ------------------------------------------------------------ authenticate
\* a return that skips the deferred Shutdown
ReturnDirect(e) ==
    /\ result' = e
    /\ apc' = "draining"

\* authenticate returns `e` through the deferred Shutdown (line 59)
ReturnDeferred(e) ==
    /\ result' = e
    /\ apc' = "shutdown"

\* authenticate.go 54-59 and 193-231: create the channel and start the redirect
\* service.  Only the port probe and the uuid can make it fail, and then
\* authenticate returns the error at once.  The server is started in a goroutine
\* (line 224) and the service is returned without waiting for its listener.
NewOAuthRedirectService ==
    /\ pc = "run"
    /\ apc = "start"
    /\ \E ok \in BOOLEAN :
          IF ok
          THEN /\ started' = TRUE
               /\ listener' = "pending"
               /\ remainingAttempts' = PromptAttempts
               /\ apc' = "prompt"
               /\ UNCHANGED <<pc, exitCode, result, err>>
          ELSE /\ err' = "BindError"
               /\ result' = "BindError"
               /\ apc' = "returned"
               /\ pc' = "exited"
               /\ exitCode' = -3
               /\ UNCHANGED <<started, remainingAttempts, listener>>
    /\ UNCHANGED <<cmd, config, file, clientSource, apiCalls, issued, refreshCalls, saves>>
    /\ UNCHANGED <<openInBrowser, shutdownCalled, code, codeFrom, receives, exchanges, token, scanned, flags>>
    /\ UNCHANGED <<closed, arrived, request, hpc, status, body, delivered>>

\* authenticate.go 224: server.ListenAndServe in its goroutine.  It binds the
\* probed port unless the port has been taken since the probe closed its own
\* listener (lines 134-139); its error is dropped.  After Shutdown it returns
\* ErrServerClosed without listening.
ListenAndServe ==
    /\ listener = "pending"
    /\ pc = "run"
    /\ IF shutdownCalled
       THEN listener' = "closed"
       ELSE \E ok \in BOOLEAN : listener' = IF ok THEN "bound" ELSE "failed"
    /\ UNCHANGED <<closed, arrived, request, hpc, status, body, delivered>>
    /\ UNCHANGED <<mainVars, authVars>>

\* a comparison of the response as typed
NormalizeNothing(resp) == resp

\* strings.ToLower(strings.TrimSpace(result)) on the responses of the model
\* (fmt.Scan yields a token without white space)
Normalize(resp) ==
    CASE resp = "YES" -> "yes"
      [] resp = "No" -> "no"
      [] OTHER -> resp

\* authenticate.go 80-89: what authenticate does with promptBoolean's result.
\* The error is assigned to err and not looked at: the flow goes on as for "no".
Prompted(answer, e) ==
    /\ openInBrowser' = answer
    /\ err' = e
    /\ apc' = IF answer THEN "browser" ELSE "wait"

\* authenticate.go 238-263: one call of promptBooleanOnce
promptBooleanOnce ==
    /\ pc = "run"
    /\ apc = "prompt"
    /\ IF remainingAttempts = 0
       THEN /\ Prompted(FALSE, "PromptError")
            /\ UNCHANGED <<remainingAttempts, scanned, flags>>
       ELSE \E resp \in Responses :
               /\ scanned' = Append(scanned, resp)
               /\ CASE resp = "EOF" ->
                          /\ Prompted(FALSE, "ScanError")
                          /\ UNCHANGED remainingAttempts
                    [] resp # "EOF" /\ Normalize(resp) = "yes" ->
                          /\ Prompted(TRUE, Nil)
                          /\ UNCHANGED remainingAttempts
                    [] resp # "EOF" /\ Normalize(resp) = "no" ->
                          /\ Prompted(FALSE, Nil)
                          /\ UNCHANGED remainingAttempts
                    [] OTHER ->
                          /\ remainingAttempts' = remainingAttempts - 1
                          /\ UNCHANGED <<openInBrowser, err, apc>>
    /\ UNCHANGED mainVars
    /\ UNCHANGED <<result, started, shutdownCalled, code, codeFrom, receives,
                   exchanges, token, flags>>
    /\ UNCHANGED handlerVars

\* a launch whose failure is recorded while the flow goes on to the wait
openBrowserKeepsWaiting ==
    /\ pc = "run"
    /\ apc = "browser"
    /\ \E e \in {Nil, "BrowserError"} : err' = e
    /\ apc' = "wait"
    /\ UNCHANGED mainVars
    /\ UNCHANGED <<remainingAttempts, openInBrowser, result, started, shutdownCalled,
                   code, codeFrom, receives, exchanges, token, scanned, flags>>
    /\ UNCHANGED handlerVars

\* authenticate.go 82-86 and 112-126: launching the browser; a failure is returned
openBrowser ==
    /\ pc = "run"
    /\ apc = "browser"
    /\ \E e \in {Nil, "BrowserError"} :
          /\ err' = e
          /\ IF e # Nil
             THEN ReturnDeferred(e)
             ELSE /\ apc' = "wait"
                  /\ UNCHANGED result
    /\ UNCHANGED mainVars
    /\ UNCHANGED <<remainingAttempts, openInBrowser, started, shutdownCalled, code,
                   codeFrom, receives, exchanges, token, scanned, flags>>
    /\ UNCHANGED handlerVars

\* a receive that hands any value, also the empty one, to the exchange
ReceivedUnchecked(c, from) ==
    /\ code' = c
    /\ codeFrom' = from
    /\ receives' = receives + 1
    /\ apc' = "exchange"
    /\ UNCHANGED result

\* authenticate.go 91-95: the value c was read from the channel
Received(c, from) ==
    /\ code' = c
    /\ codeFrom' = from
    /\ receives' = receives + 1
    /\ IF c = ""
       THEN ReturnDeferred("NoCode")
       ELSE /\ apc' = "exchange"
            /\ UNCHANGED result

\* authenticate.go 91: a receive on the closed channel yields the zero value
ReceiveClosed ==
    /\ pc = "run"
    /\ apc = "wait"
    /\ closed
    /\ Received("", 0)
    /\ UNCHANGED mainVars
    /\ UNCHANGED <<remainingAttempts, openInBrowser, err, started, shutdownCalled,
                   exchanges, token, scanned, flags>>
    /\ UNCHANGED handlerVars

\* an exchange whose error does not stop the flow before the save
ExchangeThenSave ==
    /\ pc = "run"
    /\ apc = "exchange"
    /\ exchanges' = Append(exchanges, code)
    /\ \E ok \in BOOLEAN :
          IF ok
          THEN /\ token' = IssuedToken(issued + 1)
               /\ issued' = issued + 1
               /\ err' = Nil
          ELSE /\ err' = "ExchangeError"
               /\ UNCHANGED <<token, issued>>
    /\ apc' = "save"
    /\ UNCHANGED <<pc, cmd, config, file, clientSource, apiCalls, refreshCalls,
                   saves, exitCode>>
    /\ UNCHANGED <<remainingAttempts, openInBrowser, result, started, shutdownCalled,
                   code, codeFrom, receives, scanned, flags>>
    /\ UNCHANGED handlerVars

\* authenticate.go 97-105: the token exchange
Exchange ==
    /\ pc = "run"
    /\ apc = "exchange"
    /\ exchanges' = Append(exchanges, code)
    /\ \E ok \in BOOLEAN :
          IF ok
          THEN /\ token' = IssuedToken(issued + 1)
               /\ issued' = issued + 1
               /\ err' = Nil
               /\ apc' = "save"
               /\ UNCHANGED result
          ELSE /\ err' = "ExchangeError"
               /\ ReturnDeferred("ExchangeError")
               /\ UNCHANGED <<token, issued>>
    /\ UNCHANGED <<pc, cmd, config, file, clientSource, apiCalls, refreshCalls,
                   saves, exitCode>>
    /\ UNCHANGED <<remainingAttempts, openInBrowser, started, shutdownCalled, code,
                   codeFrom, receives, scanned, flags>>
    /\ UNCHANGED handlerVars

\* authenticate.go 109: save the new configuration and return Save's result
AuthSave ==
    /\ pc = "run"
    /\ apc = "save"
    /\ \E fault \in SaveFaults(NewConfiguration(flags, token)) :
          /\ Saved("authenticate", NewConfiguration(flags, token), fault)
          /\ ReturnDeferred(
                IF Save(file, NewConfiguration(flags, token), issued, fault).err
                THEN "SaveError" ELSE Nil)
    /\ UNCHANGED <<pc, cmd, config, clientSource, apiCalls, exitCode>>
    /\ UNCHANGED <<remainingAttempts, openInBrowser, err, started, shutdownCalled,
                   code, codeFrom, receives, exchanges, token, scanned, flags>>
    /\ UNCHANGED handlerVars

\* authenticate.go 59 and 189-191: the deferred Shutdown closes the listener
Shutdown ==
    /\ pc = "run"
    /\ apc = "shutdown"
    /\ shutdownCalled' = TRUE
    /\ listener' = IF listener = "bound" THEN "closed" ELSE listener
    /\ apc' = "draining"
    /\ UNCHANGED mainVars
    /\ UNCHANGED <<remainingAttempts, openInBrowser, err, result, started, code,
                   codeFrom, receives, exchanges, token, scanned, flags>>
    /\ UNCHANGED <<closed, arrived, request, hpc, status, body, delivered>>

\* a handler that is still running keeps its connection active
Active(r) == hpc[r] \in {"start", "send"}

\* Shutdown returns once no connection is active (its context has no deadline),
\* then authenticate returns to cobra: with an error the process exits without
\* the post-run hook (main.go 74-79).
ShutdownReturns ==
    /\ pc = "run"
    /\ apc = "draining"
    /\ \A r \in Requests : ~Active(r)
    /\ apc' = "returned"
    /\ IF result = Nil
       THEN /\ pc' = "postrun"
            /\ UNCHANGED exitCode
       ELSE /\ pc' = "exited"
            /\ exitCode' = -3
    /\ UNCHANGED <<cmd, config, file, clientSource, apiCalls, issued, refreshCalls, saves>>
    /\ UNCHANGED <<remainingAttempts, openInBrowser, err, result, started,
                   shutdownCalled, code, codeFrom, receives, exchanges, token, scanned, flags>>
    /\ UNCHANGED handlerVars

\* ------------------------------------------------------------ the handler
\* a request reaches the listener, which is open from the server's listen
\* until Shutdown; its handler runs in a goroutine of its own
Arrive ==
    /\ listener = "bound"
    /\ arrived < MaxRequests
    /\ arrived' = arrived + 1
    /\ \E s \in States, c \in Codes :
          request' = [request EXCEPT ![arrived + 1] = [state |-> s, code |-> c]]
    /\ hpc' = [hpc EXCEPT ![arrived + 1] = "start"]
    /\ UNCHANGED <<closed, status, body, delivered, listener>>
    /\ UNCHANGED <<mainVars, authVars>>

\* http.ResponseWriter.WriteHeader: only the first call sets the status
WriteHeader(st, c) == IF st = 0 THEN c ELSE st

\* a state check that accepts every state
MismatchNever(r) == FALSE

\* authenticate.go 151: the state check of the handler
Mismatch(r) == request[r].state # ServiceState

\* the deferred Writes of a handler run last in, first out when it returns or
\* panics: the confirmation (line 160), then the explanation (line 154)
DeferredWrites(r, confirm) ==
    (IF confirm THEN <<ConfirmBody>> ELSE <<>>) \o
    (IF Mismatch(r) THEN <<MismatchBody>> ELSE <<>>)

\* a handler that sends the state parameter
SentState(r) == request[r].state

\* authenticate.go 148 and 162: the value the handler sends is the code parameter
SentCode(r) == request[r].code

\* The server sends the status and the written bodies when the handler returns.
\* When the handler panics the server recovers, drops what was written (it is
\* still buffered) and closes the connection: the client gets no response.
Finish(r, how) == delivered' = [delivered EXCEPT ![r] = how]

\* authenticate.go 148-160: the handler up to its send.  On a mismatch it writes
\* 400 and closes the channel (closing a closed channel panics), and goes on to
\* the lines of the matching case.
ServeHTTP(r) ==
    /\ hpc[r] = "start"
    /\ IF Mismatch(r)
       THEN IF closed
            THEN /\ status' = [status EXCEPT ![r] = WriteHeader(@, StatusBadRequest)]
                 /\ body' = [body EXCEPT ![r] = DeferredWrites(r, FALSE)]
                 /\ hpc' = [hpc EXCEPT ![r] = "panicClose"]
                 /\ Finish(r, "aborted")
                 /\ UNCHANGED closed
            ELSE /\ closed' = TRUE
                 /\ status' = [status EXCEPT ![r] =
                       WriteHeader(WriteHeader(@, StatusBadRequest), StatusOK)]
                 /\ hpc' = [hpc EXCEPT ![r] = "send"]
                 /\ UNCHANGED <<body, delivered>>
       ELSE /\ status' = [status EXCEPT ![r] = WriteHeader(@, StatusOK)]
            /\ hpc' = [hpc EXCEPT ![r] = "send"]
            /\ UNCHANGED <<closed, body, delivered>>
    /\ UNCHANGED <<arrived, request, listener>>
    /\ UNCHANGED <<mainVars, authVars>>

\* authenticate.go 162 with 91: the send meets authenticate's receive
SendReceive(r) ==
    /\ hpc[r] = "send"
    /\ ~closed
    /\ pc = "run"
    /\ apc = "wait"
    /\ Received(SentCode(r), r)
    /\ hpc' = [hpc EXCEPT ![r] = "done"]
    /\ body' = [body EXCEPT ![r] = DeferredWrites(r, TRUE)]
    /\ Finish(r, "sent")
    /\ UNCHANGED <<closed, arrived, request, status, listener>>
    /\ UNCHANGED mainVars
    /\ UNCHANGED <<remainingAttempts, openInBrowser, err, started, shutdownCalled,
                   exchanges, token, scanned, flags>>

\* authenticate.go 162: a send on a closed channel panics, also when the channel
\* is closed while the send is blocked
SendPanics(r) ==
    /\ hpc[r] = "send"
    /\ closed
    /\ hpc' = [hpc EXCEPT ![r] = "panicSend"]
    /\ body' = [body EXCEPT ![r] = DeferredWrites(r, TRUE)]
    /\ Finish(r, "aborted")
    /\ UNCHANGED <<closed, arrived, request, status, listener>>
    /\ UNCHANGED <<mainVars, authVars>>

\* ------------------------------------------------------------ specification
Next ==
    \/ MainGet
    \/ Execute
    \/ ApiCall
    \/ CommandDone
    \/ PersistentPostRunE
    \/ NewOAuthRedirectService
    \/ ListenAndServe
    \/ promptBooleanOnce
    \/ openBrowser
    \/ ReceiveClosed
    \/ Exchange
    \/ AuthSave
    \/ Shutdown
    \/ ShutdownReturns
    \/ Arrive
    \/ \E r \in Requests : ServeHTTP(r)
    \/ \E r \in Requests : SendReceive(r)
    \/ \E r \in Requests : SendPanics(r)

Spec == Init /\ [][Next]_vars

\* Every goroutine that can take a step of the program takes it: the foreground
\* once it has left the prompt and the wait, the server and each handler.  The
\* user's responses and the arrival of requests are not forced.
Fairness ==
    /\ WF_vars(openBrowser)
    /\ WF_vars(ReceiveClosed)
    /\ WF_vars(Exchange)
    /\ WF_vars(AuthSave)
    /\ WF_vars(Shutdown)
    /\ WF_vars(ShutdownReturns)
    /\ WF_vars(ListenAndServe)
    /\ \A r \in Requests :
          /\ WF_vars(ServeHTTP(r))
          /\ WF_vars(SendReceive(r))
          /\ WF_vars(SendPanics(r))

FairSpec == Spec /\ Fairness

\* ------------------------------------------------------------ round trip
\* The configuration that a run of authenticate saves, read back by the next
\* run: Save of NewConfiguration(flags, token) (authenticate.go 109), then Get
\* and the token source built on its result (main.go 34-43), then a read of the
\* token by the API client.
RoundTripFlags ==
    {[ClientID |-> i, ClientSecret |-> x, AuthURL |-> a, TokenURL |-> t] :
        i \in {"abc", "id2"}, x \in {"xyz", "secret2"},
        a \in {"https://example.com/authorize", "https://example.org/auth"},
        t \in {"https://example.com/token", "https://example.org/token"}}

RoundTripTokens ==
    {[access |-> a, refresh |-> r, valid |-> v] :
        a \in 1..2, r \in 1..2, v \in BOOLEAN}

InitRoundTrip ==
    /\ pc = "rt_save"
    /\ flags \in RoundTripFlags
    /\ token \in RoundTripTokens
    /\ file \in {NoFile, EmptyFile} \cup
                {ConfigFile(MarshalIndent(NewConfiguration(StoredConfig, t), t)) :
                    t \in StoredTokens}
    /\ issued = 2
    /\ cmd = "authenticate"
    /\ config = NilConfiguration
    /\ clientSource = NoToken
    /\ apiCalls = 0
    /\ refreshCalls = <<>>
    /\ saves = <<>>
    /\ exitCode = 0
    /\ apc = "save"
    /\ remainingAttempts = 0
    /\ openInBrowser = FALSE
    /\ err = Nil
    /\ result = NoValue
    /\ started = TRUE
    /\ shutdownCalled = FALSE
    /\ code = "c1"
    /\ codeFrom = -1
    /\ receives = 0
    /\ exchanges = <<>>
    /\ scanned = <<>>
    /\ closed = FALSE
    /\ arrived = 0
    /\ request = [r \in Requests |-> [state |-> "", code |-> ""]]
    /\ hpc = [r \in Requests |-> "none"]
    /\ status = [r \in Requests |-> 0]
    /\ body = [r \in Requests |-> <<>>]
    /\ delivered = [r \in Requests |-> "pending"]
    /\ listener = "bound"

\* authenticate.go 109: Save of the configuration made of the flags and the token
RoundTripSave ==
    /\ pc = "rt_save"
    /\ \E fault \in SaveFaults(NewConfiguration(flags, token)) :
          Saved("authenticate", NewConfiguration(flags, token), fault)
    /\ pc' = "rt_load"
    /\ UNCHANGED <<cmd, config, clientSource, apiCalls, exitCode>>
    /\ UNCHANGED <<authVars, handlerVars>>

\* main.go 34-43 in the next run: Get, and the token source on its result
RoundTripGet ==
    /\ pc = "rt_load"
    /\ IF Get(file).err # Nil \/ Get(file).c.kind = "nil"
       THEN /\ pc' = "rt_done"
            /\ UNCHANGED <<config, clientSource>>
       ELSE /\ config' = Get(file).c
            /\ clientSource' = TokenSource(Get(file).c)
            /\ pc' = "rt_read"
    /\ UNCHANGED <<cmd, file, apiCalls, issued, refreshCalls, saves, exitCode>>
    /\ UNCHANGED <<authVars, handlerVars>>

\* the API client reads the token from that token source
RoundTripToken ==
    /\ pc = "rt_read"
    /\ LET read == SourceToken(clientSource, issued, TRUE)
       IN  /\ clientSource' = read.t
           /\ issued' = issued + read.refreshes
           /\ refreshCalls' = IF read.refreshes > 0
                              THEN Append(refreshCalls, "client")
                              ELSE refreshCalls
    /\ pc' = "rt_done"
    /\ UNCHANGED <<cmd, config, file, apiCalls, saves, exitCode>>
    /\ UNCHANGED <<authVars, handlerVars>>

NextRoundTrip ==
    \/ RoundTripSave
    \/ RoundTripGet
    \/ RoundTripToken

SpecRoundTrip == InitRoundTrip /\ [][NextRoundTrip]_vars

\* ------------------------------------------------------------ properties
\* request r carries a state other than the service's
Forged(r) == request[r].state # ServiceState

\* handler r has run past its state check
Handled(r) == hpc[r] \notin {"none", "start"}

\* handler r has reached its send (line 162)
SendAttempted(r) == hpc[r] \in {"send", "done", "panicSend"}

\* handler r has closed the channel (line 155)
ClosedBy(r) == Forged(r) /\ hpc[r] \in {"send", "panicSend"}

\* authenticate has left its body: it has returned or is in the deferred Shutdown
Leaving == apc \in {"shutdown", "draining", "returned"}

SavesBy(who) == {i \in 1..Len(saves) : saves[i].by = who}

\* handler r has returned or panicked
Finished(r) == hpc[r] \in {"done", "panicClose", "panicSend"}

\* C1: a request whose state differs from the service's is answered with status
\* 400 and its code never reaches authenticate; when it is that request's close
\* that ends the wait, authenticate reads the empty value and returns the no-code
\* error with no token exchange and no save.
C1_MismatchRejected ==
    \A r \in Requests :
        (Handled(r) /\ Forged(r)) =>
            /\ status[r] = StatusBadRequest
            /\ Finished(r) => delivered[r] = "sent"
            /\ codeFrom # r
            /\ (receives > 0 /\ codeFrom = 0) =>
                  /\ code = ""
                  /\ result = "NoCode"
                  /\ Leaving
                  /\ exchanges = <<>>
                  /\ saves = <<>>
                  /\ (pc = "exited" => exitCode = -3)

\* C2: when authenticate reads the value sent for a request with the matching
\* state and a nonempty code, it reads exactly that code, it reads once, and the
\* token exchange is called with that code.
C2_CodeDelivered ==
    /\ receives <= 1
    /\ Len(exchanges) <= 1
    /\ \A r \in Requests :
          /\ hpc[r] = "done" => codeFrom = r
          /\ (codeFrom = r /\ ~Forged(r) /\ request[r].code # "") =>
                /\ code = request[r].code
                /\ receives = 1
                /\ hpc[r] = "done"
                /\ apc # "wait"
                /\ apc = "exchange" => exchanges = <<>>
                /\ apc # "exchange" => exchanges = <<request[r].code>>

C2_Witness ==
    \E r \in Requests :
        /\ codeFrom = r
        /\ request[r].code = "c1"
        /\ exchanges = <<"c1">>
        /\ apc = "returned"

\* C3: at most one value is produced or attempted on the channel: the sends
\* attempted and the closes performed by the handlers number at most one.
C3_OneShot ==
    Cardinality({r \in Requests : SendAttempted(r)}) +
    Cardinality({r \in Requests : ClosedBy(r)}) <= 1

\* C4: once the service has started, authenticate does not return before the
\* deferred Shutdown has been called, whatever the path it returns by.
C4_ShutdownOnEveryExit ==
    (apc = "returned" /\ started) =>
        /\ shutdownCalled
        /\ result \in {"BrowserError", "NoCode", "ExchangeError", "SaveError", Nil}

C4_Witness ==
    /\ apc = "returned"
    /\ started
    /\ result = "ExchangeError"
    /\ shutdownCalled

\* C5 as stated: after a failed browser launch authenticate still waits for the
\* code, so it does not return before it has read from the channel.
C5_BrowserFailureKeepsWaiting ==
    (err = "BrowserError" /\ Leaving) => receives = 1

\* C5 amended: a failed browser launch ends the flow; authenticate returns that
\* error through Shutdown without reading the channel, exchanging or saving, also
\* when a valid redirect has arrived.
C5_BrowserFailureAborts ==
    err = "BrowserError" =>
        /\ openInBrowser
        /\ Leaving
        /\ result = "BrowserError"
        /\ receives = 0
        /\ exchanges = <<>>
        /\ saves = <<>>
        /\ (pc = "exited" => exitCode = -3)

C5_Witness ==
    /\ err = "BrowserError"
    /\ apc = "draining"
    /\ \E r \in Requests :
          /\ ~Forged(r)
          /\ request[r].code # ""
          /\ hpc[r] = "send"

\* C6: after 3 unrecognized responses the prompt is exhausted and authenticate
\* returns the prompt's error without waiting for the code, exchanging or saving.
C6_PromptExhausted ==
    (started /\ remainingAttempts = 0 /\ apc # "prompt") =>
        /\ Leaving
        /\ result = "PromptError"
        /\ receives = 0
        /\ exchanges = <<>>
        /\ saves = <<>>

\* C7: when authenticate reads the empty code sent for a request with the
\* matching state, it returns the no-code error: no token exchange, no save, no
\* second wait, and the process ends with the error.
C7_EmptyCodeFails ==
    \A r \in Requests :
        (codeFrom = r /\ ~Forged(r) /\ request[r].code = "") =>
            /\ code = ""
            /\ result = "NoCode"
            /\ Leaving
            /\ receives = 1
            /\ exchanges = <<>>
            /\ saves = <<>>
            /\ (pc = "exited" => exitCode = -3)

C7_Witness ==
    \E r \in Requests :
        /\ codeFrom = r
        /\ ~Forged(r)
        /\ request[r].code = ""
        /\ pc = "exited"

C9_ExitSaveWritesRefreshed ==
    (/\ pc = "exited"
     /\ cmd = "api"
     /\ \E i \in 1..Len(refreshCalls) : refreshCalls[i] = "client"
     /\ Len(saves) = 1) =>
        /\ \A i \in 1..Len(refreshCalls) : refreshCalls[i] # "exit"
        /\ ~saves[1].err => (/\ saves[1].token = clientSource
                             /\ file.json.token.access_token = clientSource.access)

\* C10: with a stored token past its expiry, the reads made through the store's
\* token sources in one run (the API client's and the exit save's) make exactly
\* one refresh exchange between them.
C10_SingleRefresh ==
    (/\ cmd \in {"api", "help"}
     /\ config.kind = "config"
     /\ ~Valid(config.token)
     /\ (apiCalls > 0 \/ saves # <<>>)) =>
        Len(refreshCalls) = 1

\* C11: a Save that fails leaves the file as it was: the step that records a
\* failed Save does not change the file.
C11_FailedSaveKeepsFile ==
    [][(Len(saves') > Len(saves) /\ saves'[Len(saves')].err) => file' = file]_vars

\* the process ended in main's call of Get, before any command ran
EndedInGet == pc = "exited" /\ cmd = NoValue

\* C12: Get returns no configuration and no error for an absent file, the parsed
\* configuration for a good file, and an error (main exits with -2) for a file
\* that cannot be stat'ed, opened or parsed or is a directory; it never panics.
C12_LoadOutcomes ==
    /\ pc = "choose" =>
          /\ file.kind \in {"absent", "config"}
          /\ file.kind = "absent" => config = NilConfiguration
          /\ file.kind = "config" =>
                /\ config.kind = "config"
                /\ config.oauth.ClientID = file.json.client_id
                /\ config.token.access = file.json.token.access_token
    /\ (pc # "main" /\ file.kind \in {"unstatable", "directory", "unreadable", "empty"}
          /\ saves = <<>>) =>
          /\ EndedInGet
          /\ exitCode = -2
          /\ config = NilConfiguration
    /\ EndedInGet => exitCode = -2

\* C13: a service that NewOAuthRedirectService has returned has its listener
\* bound to the port of the redirect URL (or about to be): a listen that fails
\* makes the start fail, so no returned service has a failed listener.
C13_ServiceIsBound ==
    started => listener # "failed"

\* C14: a handler that has finished has answered its request with one response:
\* 200 and the confirmation alone when the state matches, 400 and the
\* explanation alone when it does not.
C14_OneResponse ==
    \A r \in Requests :
        Finished(r) =>
            /\ delivered[r] = "sent"
            /\ IF Forged(r)
               THEN status[r] = StatusBadRequest /\ body[r] = <<MismatchBody>>
               ELSE status[r] = StatusOK /\ body[r] = <<ConfirmBody>>

\* the responses that mean yes and no, in any case
IsYes(resp) == resp \in {"yes", "YES"}
IsNo(resp) == resp \in {"no", "No"}

\* C15: promptBoolean reads at most 3 responses and stops at the first yes or
\* no, whatever its case: it returns true for yes and false without error for
\* no, and the exhaustion error after 3 unrecognized responses, without reading
\* a fourth.
C15_PromptBoolean ==
    LET n == Len(scanned)
    IN  /\ n <= 3
        /\ \A i \in 1..(n - 1) : scanned[i] = "junk"
        /\ apc = "prompt" =>
              /\ \A i \in 1..n : scanned[i] = "junk"
              /\ remainingAttempts = 3 - n
        /\ apc \in {"browser", "wait"} =>
              IF n > 0 /\ IsYes(scanned[n]) THEN openInBrowser /\ err = Nil
              ELSE IF n > 0 /\ IsNo(scanned[n]) THEN ~openInBrowser /\ err = Nil
              ELSE IF n > 0 /\ scanned[n] = "EOF" THEN ~openInBrowser /\ err = "ScanError"
              ELSE n = 3 /\ ~openInBrowser /\ err = "PromptError"

C15_Witness ==
    /\ scanned = <<"junk", "junk", "junk">>
    /\ apc = "wait"
    /\ err = "PromptError"

\* C16: a configuration with a token that has not expired, once saved, is read
\* back with the same client id, client secret, authorization URL and token URL,
\* and its token source returns the saved access token; neither the save nor
\* the read makes a refresh exchange.
C16_RoundTrip ==
    (/\ pc \in {"rt_load", "rt_read", "rt_done"}
     /\ token.valid
     /\ ~saves[1].err) =>
        /\ refreshCalls = <<>>
        /\ file.kind = "config"
        /\ pc \in {"rt_read", "rt_done"} =>
              /\ config.oauth.ClientID = flags.ClientID
              /\ config.oauth.ClientSecret = flags.ClientSecret
              /\ config.oauth.AuthURL = flags.AuthURL
              /\ config.oauth.TokenURL = flags.TokenURL
              /\ config.token.access = token.access
        /\ pc = "rt_done" =>
              /\ config.kind = "config"
              /\ clientSource.access = token.access

C16_Witness ==
    /\ pc = "rt_done"
    /\ flags = FlagsConfig
    /\ token = [access |-> 1, refresh |-> 1, valid |-> TRUE]
    /\ ~saves[1].err
    /\ clientSource.access = 1
    /\ refreshCalls = <<>>

\* C17: no handler panics: none sends on the closed channel and none closes the
\* channel a second time.
C17_NoHandlerPanic ==
    \A r \in Requests : hpc[r] \notin {"panicSend", "panicClose"}

\* C18: once authenticate has stopped waiting for the code, it returns: the
\* deferred Shutdown completes whatever the handlers are doing.
C18_AuthenticateReturns ==
    (apc \in {"exchange", "save", "shutdown", "draining"}) ~> (apc = "returned")

\* the dot file is as main's Get found it
FileAsLoaded ==
    IF config.kind = "nil"
    THEN file.kind = "absent"
    ELSE /\ file.kind = "config"
         /\ file.json.client_id = config.oauth.ClientID
         /\ file.json.client_secret = config.oauth.ClientSecret
         /\ file.json.token.access_token = config.token.access
         /\ (file.json.token.expiry = "future") = config.token.valid

\* C19: when authenticate fails before its save (no service, browser launch
\* error, empty code, token exchange error), no Save is made in that run, by the
\* flow or by the exit hook, and the dot file stays as it was loaded.
C19_FailedAuthenticateSavesNothing ==
    (/\ cmd = "authenticate"
     /\ \/ result = "BindError"
        \/ err = "BrowserError"
        \/ (receives = 1 /\ code = "")
        \/ err = "ExchangeError") =>
        /\ saves = <<>>
        /\ FileAsLoaded
        /\ (pc = "exited" => exitCode = -3)

C19_Witness ==
    /\ cmd = "authenticate"
    /\ err = "ExchangeError"
    /\ pc = "exited"
    /\ file.kind = "config"

\* C20: the exit hook calls Save only with a loaded configuration, never with
\* the nil configuration that Get returns for an absent file.
C20_ExitSaveHasConfiguration ==
    SavesBy("exit") # {} => config.kind = "config"

====
